---- MODULE Spec2Model ----
(***************************************************************************)
(* Model of the hover selection tool MapToolSelectCircle                   *)
(* (src/map_tool_select_circle.py) and of the plugin shell that drives it  *)
(* (src/select_on_hover.py).                                               *)
(*                                                                         *)
(* The host collaborators (canvas, project, layers, layer tree, QTimer)    *)
(* are modelled by what the tool reads from them and writes to them.       *)
(* Geometry is planar integer geometry: a feature is a point (or has no    *)
(* geometry), the hover circle is a disc, its bounding box the enclosing   *)
(* square.  A layer in a CRS other than the project's stores its points    *)
(* shifted by a fixed offset, so that a missing transform is observable.   *)
(***************************************************************************)
EXTENDS Integers, FiniteSets, Sequences, TLC

(***************************************************************************)
(* Bounds of the model.                                                    *)
(***************************************************************************)
\* the feature ids of a vector layer are 1..MaxFid (layer B holds feature 1 only)
MaxFid == 5
\* largest number of host failures injected into one run or one rebuild
MaxFaults == 1
\* the burst counter saturates here
MaxBurst == 2

\* identifiers of the id sets the selection-mode algebra is applied to
MaxAlgId == 3

\* the features 1..MaxEditFid of layer A are deleted and added again by the user
MaxEditFid == 2

\* pixel radius arguments are the halves from -1.5 to MaxPixelInput + 0.5
MaxPixelInput == 2
\* map-unit radius arguments are the integers from -1 to MaxMapUnitInput
MaxMapUnitInput == 1
\* the canvas scale (map units per pixel) ranges over 1..MaxMup
MaxMup == 2

(***************************************************************************)
(* The host project: a fixed set of layers.                                *)
(*   A  vector, project CRS        B  vector, another CRS, one feature     *)
(*   N  vector, not selectable     R  raster                               *)
(***************************************************************************)
LayerIds == {"A", "B", "N", "R"}
NoLayer == "none"
\* self._pending_pos = None: no point
None == << >>

\* layer.type() == QgsMapLayer.VectorLayer
IsVector(l) == l # "R"

\* layer.selectable()
Selectable(l) == l # "N"

\* layer.crs() ; project.crs() is "project"
LayerCrs(l) == IF l = "B" THEN "other" ELSE "project"

\* the layers whose visibility the user toggles in the layer tree
Toggleable == {"A", "B"}

\* event.pos(): the screen points a mouse move can carry
Points == {<<2, 1>>, <<4, 1>>, <<8, 8>>}

NoGeom == <<>>

\* geometry of feature f, in project coordinates: three points in a row,
\* one point off the row, one feature without geometry, and so on
GeomProj(f) ==
    CASE f % 5 = 1 -> <<1, 1>>
      [] f % 5 = 2 -> <<3, 1>>
      [] f % 5 = 3 -> <<5, 1>>
      [] f % 5 = 4 -> <<3, 2>>
      [] OTHER -> NoGeom

\* QgsCoordinateTransform(proj_crs, layer_crs, project) applied to a point
TransformPoint(crs, pt) ==
    IF crs = "project" THEN pt ELSE <<pt[1] + 10, pt[2]>>

\* layer.getFeatures(): the ids of the layer's features
LayerFids(l) ==
    CASE l = "B" -> {1}
      [] IsVector(l) -> 1..MaxFid
      [] OTHER -> {}

\* feat.geometry() of feature f of layer l, in the layer's CRS
Geom(l, f) ==
    IF GeomProj(f) = NoGeom THEN NoGeom
    ELSE TransformPoint(LayerCrs(l), GeomProj(f))

VARIABLES
    active,            \* canvas.mapTool() == self
    radius_pixels,     \* self.radius_pixels
    radius_map_units,  \* self.radius_map_units
    unit_mode,         \* self.unit_mode
    restrict_mode,     \* self.restrict_mode
    selection_mode,    \* self.selection_mode
    layer_indexes,     \* self.layer_indexes: layer id -> index
    indexed_layer_ids, \* self.indexed_layer_ids
    pending_pos,       \* self._pending_pos
    timerActive,       \* self._hover_timer.isActive()
    visible,           \* layer tree: ids of the visible layers
    currentLayer,      \* canvas.currentLayer()
    mup,               \* canvas.mapUnitsPerPixel()
    selected,          \* layer id -> layer.selectedFeatureIds()
    run,               \* what the pipeline run of the last step emitted, or NoRun
    lastMove,          \* history: point of the last mouse move delivered
    burst,             \* history: moves of the current burst (saturating), 0 if none since activation
    cancelled,         \* history: a deactivation stopped the timer of the pending point
    alg,               \* an application of the selection-mode algebra
    call,              \* the configuration call of the last step and its arguments, or NoCall
    features,          \* layer id -> ids of the features the layer holds now
    project            \* ids of the layers in QgsProject.instance().mapLayers()

vars == <<active, radius_pixels, radius_map_units, unit_mode, restrict_mode,
          selection_mode, layer_indexes, indexed_layer_ids, pending_pos,
          timerActive, visible, currentLayer, mup, selected, run, lastMove,
          burst, cancelled, alg, call, features, project>>

radiusVars == <<radius_pixels, radius_map_units, unit_mode>>
modeVars == <<restrict_mode, selection_mode>>
cacheVars == <<layer_indexes, indexed_layer_ids>>
hoverVars == <<pending_pos, timerActive, lastMove, burst, cancelled>>
envVars == <<visible, currentLayer, mup>>

NoRun == [kind |-> "none"]

\* no configuration call observed
NoCall == [op |-> "none"]

\* the ids layer.getFeatures() delivers now
CurrentFids(l) == features[l]

\* project.mapLayers().values()
ProjectLayers == project

Min(a, b) == IF a < b THEN a ELSE b

(***************************************************************************)
(* Host failures.  A pipeline run or a rebuild is handed the set of host   *)
(* calls that raise during it: the build of a layer's index, the CRS       *)
(* transform for a layer, the index query of a layer, the fetch or test of *)
(* one candidate feature, the commit of a layer's selection.               *)
(***************************************************************************)
Fault(k, l, f) == [kind |-> k, layer |-> l, fid |-> f]

\* the layers whose host calls the tool reaches at all
FaultLayers == {l \in LayerIds : IsVector(l) /\ Selectable(l)}

AllFaults ==
    {Fault(k, l, 0) : k \in {"build", "query", "commit"}, l \in FaultLayers}
    \cup {Fault("xform", l, 0) : l \in {x \in FaultLayers : LayerCrs(x) # "project"}}
    \cup UNION {{Fault("fetch", l, f) : f \in LayerFids(l)} : l \in FaultLayers}

RECURSIVE SubsetsUpTo(_, _)
SubsetsUpTo(S, k) ==
    IF k = 0 THEN {{}}
    ELSE LET P == SubsetsUpTo(S, k - 1)
         IN  P \cup {T \cup {x} : T \in P, x \in S}

(***************************************************************************)
(* GeometryOps                                                             *)
(***************************************************************************)
\* self.toMapCoordinates(self._pending_pos)
ToMapCoordinates(pos, m) == <<pos[1] * m, pos[2] * m>>

\* the radius that takes the pixel radius for map units at any scale
RadiusInMapUnitsIgnoresScale(umode, rpx, rmu, m) ==
    IF umode = "pixels" THEN rpx ELSE rmu

\* radius in map units
RadiusInMapUnits(umode, rpx, rmu, m) ==
    IF umode = "pixels" THEN rpx * m ELSE rmu

\* QgsGeometry.fromPointXY(center).buffer(radius, segments)
CircleGeom(pos, umode, rpx, rmu, m) ==
    [c |-> ToMapCoordinates(pos, m), r |-> RadiusInMapUnits(umode, rpx, rmu, m)]

\* the circle in the CRS of a layer (a clone, transformed when the CRS differs)
GeomForLayer(circle, crs) ==
    IF crs # "project" THEN [c |-> TransformPoint(crs, circle.c), r |-> circle.r]
    ELSE circle

\* geom_for_layer.boundingBox()
BoundingBox(g) ==
    [xmin |-> g.c[1] - g.r, xmax |-> g.c[1] + g.r,
     ymin |-> g.c[2] - g.r, ymax |-> g.c[2] + g.r]

\* a point feature's bounding box intersects the rectangle
InBBox(pt, bb) ==
    /\ bb.xmin <= pt[1] /\ pt[1] <= bb.xmax
    /\ bb.ymin <= pt[2] /\ pt[2] <= bb.ymax

\* g.intersects(geom_for_layer): the exact test
Intersects(pt, g) ==
    (pt[1] - g.c[1]) * (pt[1] - g.c[1]) + (pt[2] - g.c[2]) * (pt[2] - g.c[2])
        <= g.r * g.r

(***************************************************************************)
(* SelectionModeAlgebra                                                    *)
(***************************************************************************)
\* the algebra with add taken as replace
ApplySelectionModeAddReplaces(mode, current_sel, ids_to_process) ==
    CASE mode = "add" -> ids_to_process
      [] mode = "replace" -> ids_to_process
      [] mode = "toggle" -> (current_sel \ ids_to_process) \cup
                            (ids_to_process \ current_sel)
      [] OTHER -> current_sel \cup ids_to_process

\* the algebra with add taken as toggle
ApplySelectionModeAddToggles(mode, current_sel, ids_to_process) ==
    CASE mode = "replace" -> ids_to_process
      [] OTHER -> (current_sel \ ids_to_process) \cup (ids_to_process \ current_sel)

\* the algebra with toggle taken as union
ApplySelectionModeToggleAdds(mode, current_sel, ids_to_process) ==
    CASE mode = "replace" -> ids_to_process
      [] OTHER -> current_sel \cup ids_to_process

ApplySelectionMode(mode, current_sel, ids_to_process) ==
    CASE mode = "add" -> current_sel \cup ids_to_process
      [] mode = "replace" -> ids_to_process
      [] mode = "toggle" -> (current_sel \ ids_to_process)
                            \cup (ids_to_process \ current_sel)
      [] OTHER -> current_sel \cup ids_to_process

(***************************************************************************)
(* Eligibility of a layer: vector, selectable, passing the restriction.    *)
(***************************************************************************)
\* eligibility that takes "no current layer" as no restriction
EligibleLayerNoCurrent(l, rmode, vis, cur) ==
    /\ IsVector(l)
    /\ Selectable(l)
    /\ CASE rmode = "visible" -> l \in vis
         [] rmode = "active" -> cur = NoLayer \/ cur = l
         [] OTHER -> TRUE

\* eligibility that does not look at the layer tree
EligibleLayerAnyVisibility(l, rmode, vis, cur) ==
    /\ IsVector(l)
    /\ Selectable(l)
    /\ CASE rmode = "active" -> cur # NoLayer /\ cur = l
         [] OTHER -> TRUE

EligibleLayer(l, rmode, vis, cur) ==
    /\ IsVector(l)
    /\ Selectable(l)
    /\ CASE rmode = "visible" -> l \in vis
         [] rmode = "active" -> cur # NoLayer /\ cur = l
         [] OTHER -> TRUE

(***************************************************************************)
(* SpatialIndexCache                                                       *)
(***************************************************************************)
\* QgsSpatialIndex(layer.getFeatures()): the bounding boxes of the features
\* that have a geometry, by feature id
BuildIndex(l) ==
    {[fid |-> f, pt |-> Geom(l, f)] : f \in {x \in CurrentFids(l) : Geom(l, x) # NoGeom}}

\* rebuildIndexes in which a failing build ends the loop over the layers (the
\* failing layer taken as the first of the loop)
RebuildIndexesAbortsOnFailure(rmode, vis, cur, faults) ==
    LET eligible == {l \in ProjectLayers : EligibleLayer(l, rmode, vis, cur)}
    IN  IF \E l \in eligible : Fault("build", l, 0) \in faults
        THEN [l \in {} |-> {}]
        ELSE [l \in eligible |-> BuildIndex(l)]

\* rebuildIndexes: the cache after a rebuild in which the builds in faults fail
RebuildIndexes(rmode, vis, cur, faults) ==
    LET built == {l \in ProjectLayers : /\ EligibleLayer(l, rmode, vis, cur)
                                       /\ Fault("build", l, 0) \notin faults}
    IN  [l \in built |-> BuildIndex(l)]

\* index.intersects(bbox)
IndexIntersects(index, bb) == {e.fid : e \in {x \in index : InBBox(x.pt, bb)}}


BuildFaultChoices == SubsetsUpTo({x \in AllFaults : x.kind = "build"}, MaxFaults)
RunFaultChoices == SubsetsUpTo({x \in AllFaults : x.kind # "build"}, MaxFaults)

(***************************************************************************)
(* The selection pipeline, _do_selection, layer by layer.                  *)
(***************************************************************************)
\* candidate_ids of layer l: from the index when the cache holds one (none
\* when the query raises), from a scan of the layer filtered by the bounding
\* box otherwise
CandidateIds(l, g, idx, faults) ==
    LET bbox == BoundingBox(g)
    IN  IF l \in DOMAIN idx
        THEN IF Fault("query", l, 0) \in faults THEN {}
             ELSE IndexIntersects(idx[l], bbox)
        ELSE {f \in CurrentFids(l) : Geom(l, f) # NoGeom /\ InBBox(Geom(l, f), bbox)}

\* ids_to_process without the exact test: every candidate with a geometry
IdsToProcessBBoxOnly(l, g, idx, faults) ==
    LET candidate_ids == CandidateIds(l, g, idx, faults)
        raising == {f \in candidate_ids : Fault("fetch", l, f) \in faults}
        verified == {f \in candidate_ids :
                        /\ f \in CurrentFids(l)
                        /\ Geom(l, f) # NoGeom}
    IN  IF l \in DOMAIN idx THEN verified \ raising
        ELSE IF raising # {} THEN {}
        ELSE verified

\* ids_to_process of layer l: the candidates that pass the exact test.  On
\* the indexed path a candidate whose fetch raises is skipped; on the scan
\* path the raise leaves the loop over the features and the layer
IdsToProcess(l, g, idx, faults) ==
    LET candidate_ids == CandidateIds(l, g, idx, faults)
        raising == {f \in candidate_ids : Fault("fetch", l, f) \in faults}
        verified == {f \in candidate_ids :
                        /\ f \in CurrentFids(l)
                        /\ Geom(l, f) # NoGeom
                        /\ Intersects(Geom(l, f), g)}
    IN  IF l \in DOMAIN idx THEN verified \ raising
        ELSE IF raising # {} THEN {}
        ELSE verified

\* a layer the loop passes over
Skipped(l, sel) == [ids |-> {}, sel |-> sel[l], count |-> 0, hit |-> {}]

\* the iteration that commits the new selection also when nothing was verified
ProcessLayerCommitsEmpty(l, circle, rmode, smode, vis, cur, idx, sel, faults) ==
    IF l \notin ProjectLayers \/ ~EligibleLayer(l, rmode, vis, cur)
    THEN Skipped(l, sel)
    ELSE IF LayerCrs(l) # "project" /\ Fault("xform", l, 0) \in faults
    THEN [Skipped(l, sel) EXCEPT !.hit = {Fault("xform", l, 0)}]
    ELSE LET g == GeomForLayer(circle, LayerCrs(l))
             ids == IdsToProcess(l, g, idx, faults)
             hitq == IF l \in DOMAIN idx /\ Fault("query", l, 0) \in faults
                     THEN {Fault("query", l, 0)} ELSE {}
             hitf == {Fault("fetch", l, f) : f \in
                        {x \in CandidateIds(l, g, idx, faults) :
                            Fault("fetch", l, x) \in faults}}
         IN  IF Fault("commit", l, 0) \in faults
             THEN [ids |-> ids, sel |-> sel[l], count |-> 0,
                   hit |-> hitq \cup hitf \cup {Fault("commit", l, 0)}]
             ELSE [ids |-> ids, sel |-> ApplySelectionMode(smode, sel[l], ids),
                   count |-> Cardinality(ids), hit |-> hitq \cup hitf]

\* the iteration that counts by how much the layer's selection grew
ProcessLayerCountsGrowth(l, circle, rmode, smode, vis, cur, idx, sel, faults) ==
    IF l \notin ProjectLayers \/ ~EligibleLayer(l, rmode, vis, cur)
    THEN Skipped(l, sel)
    ELSE IF LayerCrs(l) # "project" /\ Fault("xform", l, 0) \in faults
    THEN [Skipped(l, sel) EXCEPT !.hit = {Fault("xform", l, 0)}]
    ELSE LET g == GeomForLayer(circle, LayerCrs(l))
             ids == IdsToProcess(l, g, idx, faults)
             hitq == IF l \in DOMAIN idx /\ Fault("query", l, 0) \in faults
                     THEN {Fault("query", l, 0)} ELSE {}
             hitf == {Fault("fetch", l, f) : f \in
                        {x \in CandidateIds(l, g, idx, faults) :
                            Fault("fetch", l, x) \in faults}}
         IN  IF ids = {} THEN [Skipped(l, sel) EXCEPT !.hit = hitq \cup hitf]
             ELSE IF Fault("commit", l, 0) \in faults
             THEN [ids |-> ids, sel |-> sel[l], count |-> 0,
                   hit |-> hitq \cup hitf \cup {Fault("commit", l, 0)}]
             ELSE [ids |-> ids, sel |-> ApplySelectionMode(smode, sel[l], ids),
                   count |-> Cardinality(ApplySelectionMode(smode, sel[l], ids) \ sel[l]),
                   hit |-> hitq \cup hitf]

\* one iteration of the loop over project.mapLayers().values(); hit is the
\* set of host calls that raised in it
ProcessLayer(l, circle, rmode, smode, vis, cur, idx, sel, faults) ==
    IF l \notin ProjectLayers \/ ~EligibleLayer(l, rmode, vis, cur)
    THEN Skipped(l, sel)
    ELSE IF LayerCrs(l) # "project" /\ Fault("xform", l, 0) \in faults
    THEN [Skipped(l, sel) EXCEPT !.hit = {Fault("xform", l, 0)}]
    ELSE LET g == GeomForLayer(circle, LayerCrs(l))
             ids == IdsToProcess(l, g, idx, faults)
             hitq == IF l \in DOMAIN idx /\ Fault("query", l, 0) \in faults
                     THEN {Fault("query", l, 0)} ELSE {}
             hitf == {Fault("fetch", l, f) : f \in
                        {x \in CandidateIds(l, g, idx, faults) :
                            Fault("fetch", l, x) \in faults}}
         IN  IF ids = {} THEN [Skipped(l, sel) EXCEPT !.hit = hitq \cup hitf]
             ELSE IF Fault("commit", l, 0) \in faults
             THEN [ids |-> ids, sel |-> sel[l], count |-> 0,
                   hit |-> hitq \cup hitf \cup {Fault("commit", l, 0)}]
             ELSE [ids |-> ids, sel |-> ApplySelectionMode(smode, sel[l], ids),
                   count |-> Cardinality(ids), hit |-> hitq \cup hitf]

RECURSIVE SumCounts(_, _)
SumCounts(out, S) ==
    IF S = {} THEN 0
    ELSE LET l == CHOOSE x \in S : TRUE
         IN  out[l].count + SumCounts(out, S \ {l})

(***************************************************************************)
(* Initial state: the plugin's initGui has built the panel and the tool    *)
(* from the stored settings and has rebuilt the indexes once.              *)
(***************************************************************************)
RestrictModes == {"all", "visible", "active"}
SelectionModes == {"add", "replace", "toggle"}

NoAlg == [applied |-> FALSE]

InitTool(faults) ==
    /\ features = [l \in LayerIds |-> LayerFids(l)]
    /\ project = LayerIds
    /\ call = NoCall
    /\ active = FALSE
    /\ radius_pixels = 1
    /\ radius_map_units = 1
    /\ unit_mode = "pixels"
    /\ restrict_mode = "visible"
    /\ selection_mode = "add"
    /\ visible = LayerIds
    /\ currentLayer = NoLayer
    /\ mup = 1
    /\ selected = [l \in LayerIds |-> {}]
    /\ layer_indexes = RebuildIndexes("visible", LayerIds, NoLayer, faults)
    /\ indexed_layer_ids = DOMAIN layer_indexes
    /\ pending_pos = None
    /\ timerActive = FALSE
    /\ run = NoRun
    /\ lastMove = None
    /\ burst = 0
    /\ cancelled = FALSE

Init ==
    /\ \E faults \in BuildFaultChoices : InitTool(faults)
    /\ alg = NoAlg

(***************************************************************************)
(* Actions                                                                 *)
(***************************************************************************)
\* canvasMoveEvent that keeps the point already pending while the timer runs
CanvasMoveEventKeepsFirst(p) ==
    /\ active
    /\ pending_pos' = IF timerActive THEN pending_pos ELSE p
    /\ timerActive' = TRUE
    /\ lastMove' = p
    /\ burst' = IF timerActive THEN Min(burst + 1, MaxBurst) ELSE 1
    /\ cancelled' = FALSE
    /\ run' = NoRun
    /\ UNCHANGED <<active, radiusVars, modeVars, cacheVars, envVars, selected, alg, call, features, project>>

\* MapToolSelectCircle.canvasMoveEvent, delivered to the canvas's map tool
CanvasMoveEvent(p) ==
    /\ active
    /\ pending_pos' = p
    /\ timerActive' = TRUE
    /\ lastMove' = p
    /\ burst' = IF timerActive THEN Min(burst + 1, MaxBurst) ELSE 1
    /\ cancelled' = FALSE
    /\ run' = NoRun
    /\ UNCHANGED <<active, radiusVars, modeVars, cacheVars, envVars, selected, alg, call, features, project>>

\* if total_selected > 0: statusBar().showMessage(...)
StatusMessage(total_selected) == total_selected > 0

\* _do_selection without the handlers around the transform and the commit:
\* the first host call of that kind that raises ends the run, no selection is
\* committed after it and no completion event is emitted (the failing layer
\* taken as the first of the loop)
TimeoutAborting(faults, kind) ==
    /\ timerActive
    /\ timerActive' = FALSE
    /\ IF pending_pos = None
       THEN /\ run' = NoRun
            /\ UNCHANGED selected
       ELSE LET circle == CircleGeom(pending_pos, unit_mode, radius_pixels,
                                     radius_map_units, mup)
                out == [l \in LayerIds |->
                          ProcessLayer(l, circle, restrict_mode, selection_mode,
                                       visible, currentLayer, layer_indexes,
                                       selected, faults)]
                hit == UNION {out[l].hit : l \in LayerIds}
                raised == \E x \in hit : x.kind = kind
                total_selected == IF raised THEN 0 ELSE SumCounts(out, LayerIds)
            IN  /\ selected' = IF raised THEN selected
                               ELSE [l \in LayerIds |-> out[l].sel]
                /\ run' = [kind |-> "run",
                           pos |-> pending_pos,
                           pre |-> selected,
                           hit |-> hit,
                           total |-> total_selected,
                           status |-> StatusMessage(total_selected),
                           radius |-> circle.r,
                           ids |-> [l \in LayerIds |-> out[l].ids],
                           complete |-> ~raised]
    /\ UNCHANGED <<active, radiusVars, modeVars, cacheVars, pending_pos, lastMove,
                   burst, cancelled, envVars, alg, call, features, project>>

HoverTimerTimeoutTransformRaises(faults) == TimeoutAborting(faults, "xform")

HoverTimerTimeoutCommitRaises(faults) == TimeoutAborting(faults, "commit")

\* the timer's slot returning before the pipeline whenever it is called
HoverTimerTimeoutReturnsEarly(faults) ==
    /\ timerActive
    /\ timerActive' = FALSE
    /\ run' = NoRun
    /\ UNCHANGED <<active, radiusVars, modeVars, cacheVars, pending_pos, lastMove,
                   burst, cancelled, envVars, selected, alg, call, features, project>>

\* _do_selection that emits selectionComplete only when something was selected
HoverTimerTimeoutEmitsOnHits(faults) ==
    /\ timerActive
    /\ timerActive' = FALSE
    /\ IF pending_pos = None
       THEN /\ run' = NoRun
            /\ UNCHANGED selected
       ELSE LET circle == CircleGeom(pending_pos, unit_mode, radius_pixels,
                                     radius_map_units, mup)
                out == [l \in LayerIds |->
                          ProcessLayer(l, circle, restrict_mode, selection_mode,
                                       visible, currentLayer, layer_indexes,
                                       selected, faults)]
                total_selected == SumCounts(out, LayerIds)
            IN  /\ selected' = [l \in LayerIds |-> out[l].sel]
                /\ run' = [kind |-> "run",
                           pos |-> pending_pos,
                           pre |-> selected,
                           hit |-> UNION {out[l].hit : l \in LayerIds},
                           total |-> total_selected,
                           status |-> StatusMessage(total_selected),
                           radius |-> circle.r,
                           ids |-> [l \in LayerIds |-> out[l].ids],
                           complete |-> (total_selected > 0)]
    /\ UNCHANGED <<active, radiusVars, modeVars, cacheVars, pending_pos, lastMove,
                   burst, cancelled, envVars, alg, call, features, project>>

\* the single-shot hover timer expires: MapToolSelectCircle._do_selection,
\* in which the host calls in faults raise
HoverTimerTimeout(faults) ==
    /\ timerActive
    /\ timerActive' = FALSE
    /\ IF pending_pos = None
       THEN /\ run' = NoRun
            /\ UNCHANGED selected
       ELSE LET circle == CircleGeom(pending_pos, unit_mode, radius_pixels,
                                     radius_map_units, mup)
                out == [l \in LayerIds |->
                          ProcessLayer(l, circle, restrict_mode, selection_mode,
                                       visible, currentLayer, layer_indexes,
                                       selected, faults)]
                total_selected == SumCounts(out, LayerIds)
            IN  /\ selected' = [l \in LayerIds |-> out[l].sel]
                /\ run' = [kind |-> "run",
                           pos |-> pending_pos,
                           pre |-> selected,
                           hit |-> UNION {out[l].hit : l \in LayerIds},
                           total |-> total_selected,
                           status |-> StatusMessage(total_selected),
                           radius |-> circle.r,
                           ids |-> [l \in LayerIds |-> out[l].ids],
                           complete |-> TRUE]
    /\ UNCHANGED <<active, radiusVars, modeVars, cacheVars, pending_pos, lastMove,
                   burst, cancelled, envVars, alg, call, features, project>>

\* toggle_activation(True) that starts the hover timer again for the point
\* the tool still holds
ToggleActivationOnRestartsTimer(faults) ==
    /\ ~active
    /\ layer_indexes' = RebuildIndexes(restrict_mode, visible, currentLayer, faults)
    /\ indexed_layer_ids' = DOMAIN layer_indexes'
    /\ active' = TRUE
    /\ burst' = 0
    /\ timerActive' = (pending_pos # None)
    /\ run' = NoRun
    /\ UNCHANGED <<radiusVars, modeVars, pending_pos, lastMove, cancelled,
                   envVars, selected, alg, call, features, project>>

\* SelectOnHoverPlugin.toggle_activation(True): the setters with the panel's
\* values (the tool's own, the panel and the tool being kept equal), the
\* rebuild, then canvas.setMapTool and with it MapToolSelectCircle.activate
ToggleActivationOn(faults) ==
    /\ ~active
    /\ layer_indexes' = RebuildIndexes(restrict_mode, visible, currentLayer, faults)
    /\ indexed_layer_ids' = DOMAIN layer_indexes'
    /\ active' = TRUE
    /\ burst' = 0
    /\ run' = NoRun
    /\ UNCHANGED <<radiusVars, modeVars, pending_pos, timerActive, lastMove, cancelled,
                   envVars, selected, alg, call, features, project>>

\* the host makes the tool the canvas's map tool by canvas.setMapTool(tool)
\* without the plugin's button (a tool that finishes and restores the map
\* tool it replaced): MapToolSelectCircle.activate, which sets the cursor and
\* shows the rubber band
Activate ==
    /\ ~active
    /\ active' = TRUE
    /\ burst' = 0
    /\ run' = NoRun
    /\ UNCHANGED <<radiusVars, modeVars, cacheVars, pending_pos, timerActive, lastMove,
                   cancelled, envVars, selected, alg, call, features, project>>

\* deactivate that discards the index cache
DeactivateClearsCache ==
    /\ active
    /\ active' = FALSE
    /\ timerActive' = FALSE
    /\ cancelled' = (cancelled \/ timerActive)
    /\ layer_indexes' = [l \in {} |-> {}]
    /\ indexed_layer_ids' = {}
    /\ run' = NoRun
    /\ UNCHANGED <<radiusVars, modeVars, pending_pos, lastMove, burst,
                   envVars, selected, alg, call, features, project>>

\* deactivate that leaves the hover timer running
DeactivateKeepsTimer ==
    /\ active
    /\ active' = FALSE
    /\ cancelled' = (cancelled \/ timerActive)
    /\ run' = NoRun
    /\ UNCHANGED <<radiusVars, modeVars, cacheVars, pending_pos, timerActive, lastMove,
                   burst, envVars, selected, alg, call, features, project>>

\* the canvas takes another map tool: MapToolSelectCircle.deactivate
Deactivate ==
    /\ active
    /\ active' = FALSE
    /\ timerActive' = FALSE
    /\ cancelled' = (cancelled \/ timerActive)
    /\ run' = NoRun
    /\ UNCHANGED <<radiusVars, modeVars, cacheVars, pending_pos, lastMove, burst,
                   envVars, selected, alg, call, features, project>>

\* MapToolSelectCircle.setRestrictMode
SetRestrictModeValue(old, restrict) ==
    IF restrict \in {"all", "visible", "active"} THEN restrict ELSE old

\* setSelectionMode without the membership test
SetSelectionModeValueStoresAny(old, mode) == mode

\* MapToolSelectCircle.setSelectionMode
SetSelectionModeValue(old, mode) ==
    IF mode \in {"add", "replace", "toggle"} THEN mode ELSE old

\* onOptionsChanged with a rebuild that does not clear the cache first
OnOptionsChangedKeepsEntries(restrict, mode, faults) ==
    /\ (restrict # restrict_mode) # (mode # selection_mode)
    /\ restrict_mode' = SetRestrictModeValue(restrict_mode, restrict)
    /\ selection_mode' = SetSelectionModeValue(selection_mode, mode)
    /\ layer_indexes' =
          LET new == RebuildIndexes(restrict_mode', visible, currentLayer, faults)
          IN  [l \in DOMAIN new \cup DOMAIN layer_indexes |->
                  IF l \in DOMAIN new THEN new[l] ELSE layer_indexes[l]]
    /\ indexed_layer_ids' = DOMAIN layer_indexes'
    /\ run' = NoRun
    /\ UNCHANGED <<active, radiusVars, hoverVars, envVars, selected, alg, call, features, project>>

\* SelectOnHoverPlugin.onOptionsChanged: one of the panel's two combo boxes
\* changed
OnOptionsChanged(restrict, mode, faults) ==
    /\ (restrict # restrict_mode) # (mode # selection_mode)
    /\ restrict_mode' = SetRestrictModeValue(restrict_mode, restrict)
    /\ selection_mode' = SetSelectionModeValue(selection_mode, mode)
    /\ layer_indexes' = RebuildIndexes(restrict_mode', visible, currentLayer, faults)
    /\ indexed_layer_ids' = DOMAIN layer_indexes'
    /\ run' = NoRun
    /\ UNCHANGED <<active, radiusVars, hoverVars, envVars, selected, alg, call, features, project>>

\* SelectOnHoverPlugin.onRebuildIndexesRequested
OnRebuildIndexesRequested(faults) ==
    /\ layer_indexes' = RebuildIndexes(restrict_mode, visible, currentLayer, faults)
    /\ indexed_layer_ids' = DOMAIN layer_indexes'
    /\ run' = NoRun
    /\ UNCHANGED <<active, radiusVars, modeVars, hoverVars, envVars, selected, alg, call, features, project>>

\* SelectOnHoverPlugin.onClearSelectionRequested
OnClearSelectionRequested ==
    /\ selected' = [l \in LayerIds |-> {}]
    /\ run' = NoRun
    /\ UNCHANGED <<active, radiusVars, modeVars, cacheVars, hoverVars, envVars, alg, call, features, project>>

\* the user makes another layer (or none) the current layer of the canvas
SetCurrentLayer(l) ==
    /\ l # currentLayer
    /\ l = NoLayer \/ l \in ProjectLayers
    /\ currentLayer' = l
    /\ run' = NoRun
    /\ UNCHANGED <<active, radiusVars, modeVars, cacheVars, hoverVars, visible, mup,
                   selected, alg, call, features, project>>

\* the user ticks or unticks a layer in the layer tree
SetLayerVisible(l) ==
    /\ l \in ProjectLayers
    /\ visible' = IF l \in visible THEN visible \ {l} ELSE visible \cup {l}
    /\ run' = NoRun
    /\ UNCHANGED <<active, radiusVars, modeVars, cacheVars, hoverVars, currentLayer,
                   mup, selected, alg, call, features, project>>

\* the layers and features the user edits
EditLayers == {"A"}
EditFids == 1..MaxEditFid

\* the user adds feature f to layer l; nothing in the tool listens to it
AddFeature(l, f) ==
    /\ f \notin features[l]
    /\ features' = [features EXCEPT ![l] = @ \cup {f}]
    /\ run' = NoRun
    /\ UNCHANGED <<active, radiusVars, modeVars, cacheVars, hoverVars, envVars,
                   selected, alg, call, project>>

\* the user deletes feature f of layer l; the host drops it from the layer's
\* selection; nothing in the tool listens to it
DeleteFeature(l, f) ==
    /\ f \in features[l]
    /\ features' = [features EXCEPT ![l] = @ \ {f}]
    /\ selected' = [selected EXCEPT ![l] = @ \ {f}]
    /\ run' = NoRun
    /\ UNCHANGED <<active, radiusVars, modeVars, cacheVars, hoverVars, envVars,
                   alg, call, project>>

\* _on_layers_changed that never rebuilds
OnLayersChangedKeepsCache(faults) ==
    UNCHANGED cacheVars

\* MapToolSelectCircle._on_layers_changed when the project's layer set has
\* just changed: a rebuild if the tool is the canvas's map tool
OnLayersChanged(faults) ==
    IF active
    THEN /\ layer_indexes' = RebuildIndexes(restrict_mode, visible, currentLayer, faults)'
         /\ indexed_layer_ids' = DOMAIN layer_indexes'
    ELSE UNCHANGED cacheVars

\* the user removes layer l from the project: its node, its selection and
\* its being the current layer go with it; then layersRemoved is delivered
LayersRemoved(l, faults) ==
    /\ l \in project
    /\ project' = project \ {l}
    /\ visible' = visible \ {l}
    /\ currentLayer' = IF currentLayer = l THEN NoLayer ELSE currentLayer
    /\ selected' = [selected EXCEPT ![l] = {}]
    /\ run' = NoRun
    /\ UNCHANGED <<active, radiusVars, modeVars, hoverVars, mup, alg, call, features>>
    /\ OnLayersChanged(faults)

\* the user adds layer l to the project, visible and with nothing selected;
\* then layersAdded is delivered
LayersAdded(l, faults) ==
    /\ l \notin project
    /\ project' = project \cup {l}
    /\ visible' = visible \cup {l}
    /\ run' = NoRun
    /\ UNCHANGED <<active, radiusVars, modeVars, hoverVars, currentLayer, mup,
                   selected, alg, call, features>>
    /\ OnLayersChanged(faults)

(***************************************************************************)
(* The configuration interface of the tool called with arbitrary values.   *)
(* An optional argument is << >> when it is None and <<v>> otherwise; a    *)
(* pixel radius is counted in halves, so that int() has something to cut.  *)
(***************************************************************************)
Absent == << >>
Given(v) == <<v>>

PixelInputs == (-3)..(2 * MaxPixelInput + 1)
MapUnitInputs == (-1)..MaxMapUnitInput
UnitModes == {"pixels", "map_units"}
Unrecognized == "bogus"

\* int(x) of x = h / 2: truncation towards zero
IntOf(h) == IF h >= 0 THEN h \div 2 ELSE -((-h) \div 2)

Max(a, b) == IF a > b THEN a ELSE b

\* the pixel radius stored without the lower limit
ClampPixelsOnlyTruncates(h) == IntOf(h)

\* max(1, int(pixel_radius))
ClampPixels(h) == Max(1, IntOf(h))

\* MapToolSelectCircle.setRadius(pixel_radius, mapunit_radius, unit_mode)
SetRadius(pixel_radius, mapunit_radius, umode) ==
    /\ radius_pixels' = IF pixel_radius # Absent THEN ClampPixels(pixel_radius[1])
                        ELSE radius_pixels
    /\ radius_map_units' = IF mapunit_radius # Absent THEN mapunit_radius[1]
                           ELSE radius_map_units
    /\ unit_mode' = IF umode # Absent /\ umode[1] \in {"pixels", "map_units"}
                    THEN umode[1] ELSE unit_mode
    /\ call' = [op |-> "setRadius", pixel_radius |-> pixel_radius,
                mapunit_radius |-> mapunit_radius, unit_mode |-> umode]
    /\ run' = NoRun
    /\ UNCHANGED <<active, modeVars, cacheVars, hoverVars, envVars, selected, alg,
                   features, project>>

\* MapToolSelectCircle.setRestrictMode(restrict_mode)
SetRestrictMode(restrict) ==
    /\ restrict_mode' = SetRestrictModeValue(restrict_mode, restrict)
    /\ call' = [op |-> "setRestrictMode", value |-> restrict]
    /\ run' = NoRun
    /\ UNCHANGED <<active, radiusVars, selection_mode, cacheVars, hoverVars, envVars,
                   selected, alg, features, project>>

\* MapToolSelectCircle.setSelectionMode(selection_mode)
SetSelectionMode(mode) ==
    /\ selection_mode' = SetSelectionModeValue(selection_mode, mode)
    /\ call' = [op |-> "setSelectionMode", value |-> mode]
    /\ run' = NoRun
    /\ UNCHANGED <<active, radiusVars, restrict_mode, cacheVars, hoverVars, envVars,
                   selected, alg, features, project>>

\* MapToolSelectCircle.__init__ called with the given arguments
Construct(pixel_radius, mapunit_radius, umode, restrict, mode) ==
    /\ features = [l \in LayerIds |-> LayerFids(l)]
    /\ project = LayerIds
    /\ call = [op |-> "__init__", pixel_radius |-> Given(pixel_radius),
               mapunit_radius |-> Given(mapunit_radius), unit_mode |-> Given(umode),
               restrict_mode |-> restrict, selection_mode |-> mode]
    /\ active = FALSE
    /\ radius_pixels = ClampPixels(pixel_radius)
    /\ radius_map_units = mapunit_radius
    /\ unit_mode = umode
    /\ restrict_mode = restrict
    /\ selection_mode = mode
    /\ visible = LayerIds
    /\ currentLayer = NoLayer
    /\ mup = 1
    /\ selected = [l \in LayerIds |-> {}]
    /\ layer_indexes = [l \in {} |-> {}]
    /\ indexed_layer_ids = {}
    /\ pending_pos = None
    /\ timerActive = FALSE
    /\ run = NoRun
    /\ lastMove = None
    /\ burst = 0
    /\ cancelled = FALSE
    /\ alg = NoAlg

InitConfig ==
    \E px \in PixelInputs, mu \in MapUnitInputs,
       um \in UnitModes \cup {Unrecognized},
       rm \in RestrictModes \cup {Unrecognized},
       sm \in SelectionModes \cup {Unrecognized} :
          Construct(px, mu, um, rm, sm)

NextConfig ==
    \/ \E px \in {Absent} \cup {Given(v) : v \in PixelInputs},
          mu \in {Absent} \cup {Given(v) : v \in MapUnitInputs},
          um \in {Absent} \cup {Given(v) : v \in UnitModes \cup {Unrecognized}} :
             SetRadius(px, mu, um)
    \/ \E rm \in RestrictModes \cup {Unrecognized} : SetRestrictMode(rm)
    \/ \E sm \in SelectionModes \cup {Unrecognized} : SetSelectionMode(sm)

SpecConfig == InitConfig /\ [][NextConfig]_vars

\* SelectOnHoverPlugin.onRadiusChanged: the panel's radius values, each
\* within the range of its spin box or combo box, handed to setRadius
OnRadiusChanged(pixel_radius, mapunit_radius, umode) ==
    SetRadius(Given(2 * pixel_radius), Given(mapunit_radius), Given(umode))

\* the user zooms the canvas: canvas.mapUnitsPerPixel() changes
SetMapUnitsPerPixel(m) ==
    /\ m # mup
    /\ mup' = m
    /\ run' = NoRun
    /\ UNCHANGED <<active, radiusVars, modeVars, cacheVars, hoverVars, visible,
                   currentLayer, selected, alg, call, features, project>>

(***************************************************************************)
(* The whole tool.                                                         *)
(***************************************************************************)
Next ==
    \/ \E p \in Points : CanvasMoveEvent(p)
    \/ \E faults \in RunFaultChoices : HoverTimerTimeout(faults)
    \/ \E faults \in BuildFaultChoices : ToggleActivationOn(faults)
    \/ Activate
    \/ Deactivate
    \/ \E r \in RestrictModes, m \in SelectionModes, faults \in BuildFaultChoices :
          OnOptionsChanged(r, m, faults)
    \/ \E faults \in BuildFaultChoices : OnRebuildIndexesRequested(faults)
    \/ OnClearSelectionRequested
    \/ \E l \in LayerIds \cup {NoLayer} : SetCurrentLayer(l)
    \/ \E l \in Toggleable : SetLayerVisible(l)
    \/ \E l \in Toggleable, faults \in BuildFaultChoices : LayersRemoved(l, faults)
    \/ \E l \in Toggleable, faults \in BuildFaultChoices : LayersAdded(l, faults)
    \/ \E l \in EditLayers, f \in EditFids : AddFeature(l, f)
    \/ \E l \in EditLayers, f \in EditFids : DeleteFeature(l, f)
    \/ \E px \in 1..MaxPixelInput, mu \in 1..MaxMapUnitInput, um \in UnitModes :
          OnRadiusChanged(px, mu, um)
    \/ \E m \in 1..MaxMup : SetMapUnitsPerPixel(m)

Spec == Init /\ [][Next]_vars

(***************************************************************************)
(* The hover state machine: activation, moves, the timer, deactivation,    *)
(* the panel's selection mode and its clear button, over a project whose   *)
(* layers stay as they are and whose host calls do not fail.               *)
(***************************************************************************)
InitHover == InitTool({}) /\ alg = NoAlg

NextHover ==
    \/ \E p \in Points : CanvasMoveEvent(p)
    \/ HoverTimerTimeout({})
    \/ ToggleActivationOn({})
    \/ Deactivate
    \/ \E m \in SelectionModes : OnOptionsChanged(restrict_mode, m, {})
    \/ OnClearSelectionRequested

SpecHover == InitHover /\ [][NextHover]_vars

(***************************************************************************)
(* The pipeline over a changing project and configuration: the panel's     *)
(* options, the rebuild and clear buttons, the layer tree and the current  *)
(* layer, with host calls that do not fail.                                *)
(***************************************************************************)
NextPipeline ==
    \/ \E p \in Points : CanvasMoveEvent(p)
    \/ HoverTimerTimeout({})
    \/ ToggleActivationOn({})
    \/ \E r \in RestrictModes, m \in SelectionModes : OnOptionsChanged(r, m, {})
    \/ OnRebuildIndexesRequested({})
    \/ OnClearSelectionRequested
    \/ \E l \in LayerIds \cup {NoLayer} : SetCurrentLayer(l)
    \/ \E l \in Toggleable : SetLayerVisible(l)

SpecPipeline == InitHover /\ [][NextPipeline]_vars

(***************************************************************************)
(* The pipeline under host failures: every rebuild and every run is handed *)
(* a set of at most MaxFaults host calls that raise.  The layers stay as   *)
(* they are; the panel changes the selection mode.                         *)
(***************************************************************************)
NextFaults ==
    \/ \E p \in Points : CanvasMoveEvent(p)
    \/ \E faults \in RunFaultChoices : HoverTimerTimeout(faults)
    \/ \E faults \in BuildFaultChoices : ToggleActivationOn(faults)
    \/ Deactivate
    \/ \E m \in SelectionModes : OnOptionsChanged(restrict_mode, m, {})
    \/ OnClearSelectionRequested

SpecFaults == Init /\ [][NextFaults]_vars

(***************************************************************************)
(* The pipeline over layers whose features change (SpecFeatures): visible  *)
(* restriction, no host failure, the user deletes and adds features of     *)
(* layer A between the runs and the rebuilds.                              *)
(***************************************************************************)
NextFeatures ==
    \/ \E p \in Points : CanvasMoveEvent(p)
    \/ HoverTimerTimeout({})
    \/ ToggleActivationOn({})
    \/ OnRebuildIndexesRequested({})
    \/ \E m \in SelectionModes : OnOptionsChanged(restrict_mode, m, {})
    \/ OnClearSelectionRequested
    \/ \E l \in EditLayers, f \in EditFids : AddFeature(l, f)
    \/ \E l \in EditLayers, f \in EditFids : DeleteFeature(l, f)

SpecFeatures == InitHover /\ [][NextFeatures]_vars

(***************************************************************************)
(* The pipeline under changing radius settings and canvas scale            *)
(* (SpecRadius): visible restriction, add mode, no host failure.           *)
(***************************************************************************)
NextRadius ==
    \/ \E p \in Points : CanvasMoveEvent(p)
    \/ HoverTimerTimeout({})
    \/ ToggleActivationOn({})
    \/ \E px \in 1..MaxPixelInput, mu \in 1..MaxMapUnitInput, um \in UnitModes :
          OnRadiusChanged(px, mu, um)
    \/ \E m \in 1..MaxMup : SetMapUnitsPerPixel(m)

SpecRadius == InitHover /\ [][NextRadius]_vars

(***************************************************************************)
(* The index cache under everything that rebuilds it or changes what is    *)
(* eligible (SpecCache): activation and deactivation, the panel's options  *)
(* and rebuild button, layers added to and removed from the project, the   *)
(* layer tree and the current layer; index builds may fail.                *)
(***************************************************************************)
NextCache ==
    \/ \E faults \in BuildFaultChoices : ToggleActivationOn(faults)
    \/ Deactivate
    \/ \E r \in RestrictModes, m \in SelectionModes, faults \in BuildFaultChoices :
          OnOptionsChanged(r, m, faults)
    \/ \E faults \in BuildFaultChoices : OnRebuildIndexesRequested(faults)
    \/ \E l \in LayerIds \cup {NoLayer} : SetCurrentLayer(l)
    \/ \E l \in Toggleable : SetLayerVisible(l)
    \/ \E l \in Toggleable, faults \in BuildFaultChoices : LayersRemoved(l, faults)
    \/ \E l \in Toggleable, faults \in BuildFaultChoices : LayersAdded(l, faults)

SpecCache == Init /\ [][NextCache]_vars

(***************************************************************************)
(* The index cache when the host may also make the tool the canvas's map   *)
(* tool itself (SpecActivation): SpecCache and MapToolSelectCircle.activate *)
(* reached without toggle_activation.                                      *)
(***************************************************************************)
NextActivation ==
    \/ NextCache
    \/ Activate

SpecActivation == Init /\ [][NextActivation]_vars

(***************************************************************************)
(* The hover state machine with its timer (SpecHoverLive): the hover timer *)
(* is a single-shot QTimer of the event loop, so once started and neither  *)
(* stopped nor started again it expires and its slot _do_selection is      *)
(* called.  Activation, moves, the timer and deactivation alone.           *)
(***************************************************************************)
NextHoverLive ==
    \/ \E p \in Points : CanvasMoveEvent(p)
    \/ HoverTimerTimeout({})
    \/ ToggleActivationOn({})
    \/ Deactivate

SpecHoverLive == InitHover /\ [][NextHoverLive]_vars /\ WF_vars(HoverTimerTimeout({}))

(***************************************************************************)
(* The setters called on a tool in use (SpecSetters): the tool is          *)
(* activated and deactivated and the mouse moves, so that there are a      *)
(* cache and a pending hover for a setter to leave alone.                  *)
(***************************************************************************)
NextSetters ==
    \/ \E p \in Points : CanvasMoveEvent(p)
    \/ ToggleActivationOn({})
    \/ Deactivate
    \/ \E px \in {Absent, Given(2 * MaxPixelInput)},
          mu \in {Absent, Given(MaxMapUnitInput)},
          um \in {Absent} \cup {Given(v) : v \in UnitModes \cup {Unrecognized}} :
             SetRadius(px, mu, um)
    \/ \E rm \in RestrictModes \cup {Unrecognized} : SetRestrictMode(rm)
    \/ \E sm \in SelectionModes \cup {Unrecognized} : SetSelectionMode(sm)

SpecSetters == InitHover /\ [][NextSetters]_vars

(***************************************************************************)
(* Claims about the hover state machine (SpecHover).                       *)
(***************************************************************************)
IsMove == \E p \in Points : CanvasMoveEvent(p)

\* C1 (debounce): a pipeline run happens only as the expiry of the armed
\* timer, it leaves the timer idle, and it uses the point of the last move
\* delivered; a step that leaves the timer armed (a move of a burst) runs no
\* pipeline; and an idle timer is armed again by a move only.  So a burst of
\* moves, each arriving while the timer is armed, has no run inside it and at
\* most one after it, for its last point.
C1_Debounce ==
    [][/\ (run' # NoRun) => (timerActive /\ ~timerActive' /\ run'.pos = lastMove)
       /\ timerActive' => (run' = NoRun /\ pending_pos' = lastMove')
       /\ (~timerActive /\ timerActive') => IsMove]_vars

\* the run that follows a burst of several moves has used the last point
C1_Witness ==
    /\ run # NoRun
    /\ burst = MaxBurst
    /\ run.pos = lastMove
    /\ run.total > 0

\* C2 (cancellation): the timer is never armed while the tool is inactive
\* and no pipeline run happens then; once a deactivation has stopped the
\* timer of a pending point, the timer stays idle and no run happens until a
\* new move arrives.
C2_Cancellation ==
    /\ ~active => (~timerActive /\ run = NoRun)
    /\ cancelled => (~timerActive /\ run = NoRun)

\* the tool was deactivated with a point pending and activated again
C2_Witness ==
    /\ cancelled
    /\ active
    /\ pending_pos # None

\* C3 (pending hover lifecycle), as claimed: no pending point is stored
\* while the tool is inactive or active with the timer idle.
C3_PendingCleared ==
    (~active \/ ~timerActive) => pending_pos = None

(***************************************************************************)
(* Claims about the pipeline (SpecPipeline).  They are stated over the     *)
(* state right after a run: run holds what the run emitted and the         *)
(* selections before it, and the configuration, the layer tree and the     *)
(* current layer are those the run has read.                               *)
(***************************************************************************)
\* the circle of the last run, in project coordinates
RunCircle == CircleGeom(run.pos, unit_mode, radius_pixels, radius_map_units, mup)

\* the features of layer l that lie in the circle, judged in project
\* coordinates
TrueHits(l) ==
    {f \in CurrentFids(l) :
        /\ GeomProj(f) # NoGeom
        /\ (GeomProj(f)[1] - RunCircle.c[1]) * (GeomProj(f)[1] - RunCircle.c[1])
           + (GeomProj(f)[2] - RunCircle.c[2]) * (GeomProj(f)[2] - RunCircle.c[2])
           <= RunCircle.r * RunCircle.r}

\* layer l is eligible in this state
IsEligibleNow(l) ==
    /\ l \in project
    /\ l # "R"
    /\ l # "N"
    /\ restrict_mode = "visible" => l \in visible
    /\ restrict_mode = "active" => l = currentLayer

\* C4 (selection-mode algebra in the pipeline): after a run in which no host
\* call failed, every eligible layer with a non-empty set F of features in
\* the circle and selection C before the run holds C \cup F in add mode, F
\* in replace mode and the symmetric difference of C and F in toggle mode;
\* and toggle of {1,2,3} with {2,3,4} is {1,4}.
C4_ModeAlgebra ==
    /\ ApplySelectionMode("toggle", {1, 2, 3}, {2, 3, 4}) = {1, 4}
    /\ run # NoRun =>
         \A l \in LayerIds :
            (IsEligibleNow(l) /\ TrueHits(l) # {}) =>
               LET C == run.pre[l]
                   F == TrueHits(l)
               IN  /\ selection_mode = "add" => selected[l] = C \cup F
                   /\ selection_mode = "replace" => selected[l] = F
                   /\ selection_mode = "toggle" =>
                         selected[l] = {x \in C \cup F : ~(x \in C /\ x \in F)}

\* a toggle run over a layer where C \ F, C \cap F and F \ C are all non-empty
C4_Witness ==
    /\ run # NoRun
    /\ selection_mode = "toggle"
    /\ \E l \in LayerIds :
          /\ IsEligibleNow(l)
          /\ run.pre[l] \ TrueHits(l) # {}
          /\ run.pre[l] \cap TrueHits(l) # {}
          /\ TrueHits(l) \ run.pre[l] # {}
          /\ selected[l] = (run.pre[l] \ TrueHits(l)) \cup (TrueHits(l) \ run.pre[l])

\* C6 (eligibility safety): a run leaves the selection of every layer that
\* is not eligible as it was: a raster, a layer that is not selectable, a
\* layer not visible under restriction "visible", a layer other than the
\* current one under restriction "active".
C6_EligibilitySafety ==
    run # NoRun =>
       \A l \in LayerIds : ~IsEligibleNow(l) => selected[l] = run.pre[l]

\* a run that selected something while a layer with a selection of its own
\* and features in the circle was hidden, and one while such a layer was not
\* the current layer
C6_Witness ==
    /\ run # NoRun
    /\ run.total > 0
    /\ \E l \in LayerIds :
          /\ ~IsEligibleNow(l)
          /\ l \notin {"N", "R"}
          /\ TrueHits(l) # {}
          /\ run.pre[l] # {}
          /\ TrueHits(l) \ run.pre[l] # {}

IsRebuild ==
    \/ ToggleActivationOn({})
    \/ OnRebuildIndexesRequested({})
    \/ \E r \in RestrictModes, m \in SelectionModes : OnOptionsChanged(r, m, {})

NoEligibleRun ==
    /\ run # NoRun
    /\ restrict_mode = "active"
    /\ currentLayer = NoLayer

\* C7 (restriction "active" without a current layer): a rebuild under it
\* leaves the cache empty, and a run under it changes no selection, reports
\* total 0 with no status message, and no host call of it fails.
C7_ActiveNoCurrent ==
    [][/\ (restrict_mode' = "active" /\ currentLayer' = NoLayer /\ IsRebuild) =>
             (DOMAIN layer_indexes' = {} /\ indexed_layer_ids' = {})
       /\ NoEligibleRun' =>
             (selected' = run'.pre /\ run'.total = 0 /\ ~run'.status /\ run'.hit = {})]_vars

\* such a run, over an empty cache, with features of layer A under the cursor
C7_Witness ==
    /\ NoEligibleRun
    /\ DOMAIN layer_indexes = {}
    /\ TrueHits("A") # {}
    /\ run.pre["A"] # {}
    /\ run.total = 0

(***************************************************************************)
(* Claims about host failures (SpecFaults).                                *)
(***************************************************************************)
\* the selection-mode algebra as the specification states it
AlgebraOf(mode, C, F) ==
    CASE mode = "add" -> C \cup F
      [] mode = "replace" -> F
      [] mode = "toggle" -> {x \in C \cup F : ~(x \in C /\ x \in F)}

\* the selection of layer l after a run in which found is its verified set
SelectionFor(l, found) ==
    IF IsEligibleNow(l) /\ found # {}
    THEN AlgebraOf(selection_mode, run.pre[l], found)
    ELSE run.pre[l]

\* no host call on layer l raised in the last run
NoFaultOn(l) == \A x \in run.hit : x.layer # l

RECURSIVE SumHits(_)
SumHits(S) ==
    IF S = {} THEN 0
    ELSE LET l == CHOOSE x \in S : TRUE
         IN  Cardinality(TrueHits(l)) + SumHits(S \ {l})

\* C8 (transform-failure isolation): when the transform fails for a layer in
\* a run, the run still completes, that layer keeps its selection, and every
\* other layer on which no host call failed gets the selection the algebra
\* gives for its features in the circle; when no other host call failed the
\* total counts the features in the circle of the other eligible layers.
C8_TransformIsolation ==
    run # NoRun =>
       \A b \in LayerIds :
          Fault("xform", b, 0) \in run.hit =>
             /\ run.complete
             /\ selected[b] = run.pre[b]
             /\ \A l \in LayerIds \ {b} :
                   NoFaultOn(l) => selected[l] = SelectionFor(l, TrueHits(l))
             /\ (\A x \in run.hit : x.layer = b) =>
                   run.total = SumHits({l \in LayerIds \ {b} : IsEligibleNow(l)})

\* the transform failed for layer B, which has a feature in the circle, and
\* layer A was selected into
C8_Witness ==
    /\ run # NoRun
    /\ Fault("xform", "B", 0) \in run.hit
    /\ TrueHits("B") # {}
    /\ selected["A"] # run.pre["A"]
    /\ run.total = Cardinality(TrueHits("A"))
    /\ run.total > 0

\* C9 (commit-failure isolation): when the commit of a layer's selection
\* fails in a run, the run still completes, that layer keeps its selection,
\* and every other layer on which no host call failed gets the selection the
\* algebra gives for its features in the circle; when no other host call
\* failed the total counts the features in the circle of the other eligible
\* layers.
C9_CommitIsolation ==
    run # NoRun =>
       \A b \in LayerIds :
          Fault("commit", b, 0) \in run.hit =>
             /\ run.complete
             /\ selected[b] = run.pre[b]
             /\ \A l \in LayerIds \ {b} :
                   NoFaultOn(l) => selected[l] = SelectionFor(l, TrueHits(l))
             /\ (\A x \in run.hit : x.layer = b) =>
                   run.total = SumHits({l \in LayerIds \ {b} : IsEligibleNow(l)})

\* the commit failed for one layer and another layer was selected into
C9_Witness ==
    /\ run # NoRun
    /\ \E b \in LayerIds :
          /\ Fault("commit", b, 0) \in run.hit
          /\ TrueHits(b) # {}
          /\ \E l \in LayerIds \ {b} : selected[l] # run.pre[l]
    /\ run.total > 0

\* the candidates of layer l whose fetch or test raised in the last run
FetchRaised(l) == {f \in LayerFids(l) : Fault("fetch", l, f) \in run.hit}

\* C10 (fetch failure at candidate granularity), as claimed: when the fetch
\* or test of candidates of a layer fails and no other host call on the
\* layer does, the layer gets the selection the algebra gives for its other
\* features in the circle, with or without an index for the layer.
C10_FetchPerCandidate ==
    run # NoRun =>
       \A l \in LayerIds :
          (/\ FetchRaised(l) # {}
           /\ \A x \in run.hit : x.layer = l => x.kind = "fetch") =>
             selected[l] = SelectionFor(l, TrueHits(l) \ FetchRaised(l))

\* the same for the layers the cache holds an index for
C10_IndexedPath ==
    run # NoRun =>
       \A l \in DOMAIN layer_indexes :
          (/\ FetchRaised(l) # {}
           /\ \A x \in run.hit : x.layer = l => x.kind = "fetch") =>
             selected[l] = SelectionFor(l, TrueHits(l) \ FetchRaised(l))

\* C11 (index-build failure isolation): an activation in which the index
\* builds of some eligible layers fail leaves the cache with exactly the
\* other eligible layers, and a run in which no host call fails on an
\* eligible layer that has no cache entry verifies and selects that layer's
\* features in the circle all the same.
C11_BuildFailureIsolation ==
    [][/\ \A faults \in BuildFaultChoices :
             ToggleActivationOn(faults) =>
                DOMAIN layer_indexes' =
                   {l \in LayerIds : IsEligibleNow(l)'} \ {x.layer : x \in faults}
       /\ run' # NoRun =>
             \A l \in LayerIds :
                (IsEligibleNow(l)' /\ l \notin DOMAIN layer_indexes' /\ NoFaultOn(l)') =>
                   /\ run'.ids[l] = TrueHits(l)'
                   /\ selected'[l] = SelectionFor(l, TrueHits(l))']_vars

\* layer A lost its index build, layer B is indexed, and a run selected A's
\* features in the circle
C11_Witness ==
    /\ run # NoRun
    /\ "A" \notin DOMAIN layer_indexes
    /\ "B" \in DOMAIN layer_indexes
    /\ TrueHits("A") # {}
    /\ run.ids["A"] = TrueHits("A")
    /\ selected["A"] # run.pre["A"]
    /\ run.hit = {}

\* the features counted by the last run: those verified for the layers whose
\* selection was committed
RECURSIVE CommittedCount(_)
CommittedCount(S) ==
    IF S = {} THEN 0
    ELSE LET l == CHOOSE x \in S : TRUE
         IN  (IF Fault("commit", l, 0) \in run.hit THEN 0
              ELSE Cardinality(run.ids[l])) + CommittedCount(S \ {l})

\* C13 (completion event): the expiry of the timer with a point pending is
\* a run that emits its completion event for that point, with or without
\* host failures; the event carries the number of features of the layers
\* committed, zero included, and the status message is shown exactly when
\* that number is positive.
C13_CompletionEvent ==
    [][(timerActive /\ ~timerActive' /\ active' /\ pending_pos # None) =>
          /\ run' # NoRun
          /\ run'.complete
          /\ run'.pos = pending_pos
          /\ run'.total = CommittedCount(LayerIds)'
          /\ run'.status <=> (run'.total > 0)]_vars

\* a run over features in the circle none of which was committed: the event
\* carries zero and no message is shown
C13_Witness ==
    /\ run # NoRun
    /\ run.complete
    /\ run.total = 0
    /\ ~run.status
    /\ \E l \in LayerIds : TrueHits(l) # {}

(***************************************************************************)
(* Claims about the index cache and the features (SpecFeatures).           *)
(***************************************************************************)
\* a cache without entries
NoIndexes == [l \in {} |-> {}]

\* what the scan of layer l filtered by the bounding box verifies for the
\* circle of the last run, over the features the layer holds
FallbackScan(l) ==
    IdsToProcess(l, GeomForLayer(RunCircle, LayerCrs(l)), NoIndexes, {})

\* the features of layer l with a geometry are all in its cached index
IndexCoversLayer(l) ==
    {f \in CurrentFids(l) : Geom(l, f) # NoGeom} \subseteq
       {e.fid : e \in layer_indexes[l]}

\* C12 (indexed path and fallback path agree), as claimed: after any
\* rebuilds and feature additions and removals, the set a run verifies for
\* an eligible layer that has a cache entry is the set the scan of the
\* layer's current features verifies.
C12_PathsAgree ==
    run # NoRun =>
       \A l \in DOMAIN layer_indexes :
          IsEligibleNow(l) => run.ids[l] = FallbackScan(l)

\* the same for the layers whose index holds every current feature
C12_CoveringIndexAgrees ==
    run # NoRun =>
       \A l \in DOMAIN layer_indexes :
          (IsEligibleNow(l) /\ IndexCoversLayer(l)) => run.ids[l] = FallbackScan(l)

\* a run over a layer whose index still holds a deleted feature
C12_DeletedWitness ==
    /\ run # NoRun
    /\ "A" \in DOMAIN layer_indexes
    /\ IndexCoversLayer("A")
    /\ \E e \in layer_indexes["A"] :
          e.fid \notin CurrentFids("A") /\ Intersects(e.pt, RunCircle)
    /\ run.ids["A"] # {}

\* C18 (frame condition of a run): a layer for which the run verified no
\* feature, eligible or not, keeps its selection in every selection mode;
\* in replace mode the layers the run matched hold exactly their verified
\* sets and all others are untouched.
C18_EmptyVerifiedFrame ==
    run # NoRun =>
       \A l \in LayerIds :
          /\ run.ids[l] = {} => selected[l] = run.pre[l]
          /\ (selection_mode = "replace" /\ run.ids[l] # {}) => selected[l] = run.ids[l]

\* a run in replace mode that matched layer B and verified nothing for the
\* eligible layer A, which had a selection
C18_Witness ==
    /\ run # NoRun
    /\ selection_mode = "replace"
    /\ IsEligibleNow("A")
    /\ run.ids["A"] = {}
    /\ run.pre["A"] # {}
    /\ selected["A"] = run.pre["A"]
    /\ run.ids["B"] # {}
    /\ selected["B"] = run.ids["B"]

(***************************************************************************)
(* Claims about the stored configuration (SpecConfig).                     *)
(***************************************************************************)
\* C14 (pixel radius): after construction with any pixel radius and after
\* any calls of setRadius with any pixel radius, the stored radius_pixels is
\* an integer of at least 1.
C14_PixelRadius == radius_pixels \in Nat /\ radius_pixels >= 1

\* setRadius was called with a pixel radius below 1 and 1 is stored
C14_Witness ==
    /\ call.op = "setRadius"
    /\ call.pixel_radius # Absent
    /\ call.pixel_radius[1] < 2
    /\ radius_pixels = 1

\* C15 (map-unit radius), as claimed: after construction with any map-unit
\* radius and after any calls of setRadius with any map-unit radius, zero
\* and negative ones included, the stored radius_map_units is greater than 0.
C15_MapUnitRadius == radius_map_units > 0

\* C16 (enumerated fields), as claimed: in every state, the one right after
\* construction with arbitrary strings included, unit_mode, restrict_mode
\* and selection_mode hold one of their enumerated values.
C16_EnumeratedModes ==
    /\ unit_mode \in UnitModes
    /\ restrict_mode \in RestrictModes
    /\ selection_mode \in SelectionModes

\* the same for what the setters do to recognized stored values: a setter
\* called with an unrecognized value leaves the stored value as it is
C16_SettersReject ==
    [][/\ unit_mode \in UnitModes => unit_mode' \in UnitModes
       /\ restrict_mode \in RestrictModes => restrict_mode' \in RestrictModes
       /\ selection_mode \in SelectionModes => selection_mode' \in SelectionModes]_vars

(***************************************************************************)
(* Claims about the query radius (SpecRadius).                             *)
(***************************************************************************)
\* C17 (query radius): the radius of the circle of a run is radius_pixels
\* times the canvas scale in pixels mode and radius_map_units in map_units
\* mode; with lengths counted in halves of a map unit, 20 pixels at 0.5 map
\* units (one half) per pixel give 10 map units (20 halves).
C17_QueryRadius ==
    /\ RadiusInMapUnits("pixels", 20, 1, 1) = 2 * 10
    /\ run # NoRun =>
          run.radius = IF unit_mode = "pixels" THEN radius_pixels * mup
                       ELSE radius_map_units

\* a run in pixels mode at a canvas scale other than 1
C17_Witness ==
    /\ run # NoRun
    /\ unit_mode = "pixels"
    /\ mup = MaxMup
    /\ radius_pixels > 1
    /\ run.radius = radius_pixels * MaxMup
    /\ run.radius # radius_map_units
    /\ run.total > 0

\* a run in map_units mode at a canvas scale other than 1
C17_MapUnitsWitness ==
    /\ run # NoRun
    /\ unit_mode = "map_units"
    /\ mup = MaxMup
    /\ run.radius = radius_map_units
    /\ run.radius # radius_pixels * mup

(***************************************************************************)
(* Claims about the rebuild of the index cache (SpecCache).                *)
(***************************************************************************)
\* the step is a rebuild in which the builds in faults fail
IsRebuildWith(faults) ==
    \/ ToggleActivationOn(faults)
    \/ OnRebuildIndexesRequested(faults)
    \/ \E r \in RestrictModes, m \in SelectionModes : OnOptionsChanged(r, m, faults)
    \/ active /\ \E l \in LayerIds : LayersRemoved(l, faults) \/ LayersAdded(l, faults)

\* C19 (rebuild replaces the whole cache): right after any rebuild the
\* cache holds exactly the layers eligible then whose build did not fail,
\* each with an index of its features of then, so no entry of a layer no
\* longer eligible survives; and layer_indexes and indexed_layer_ids always
\* hold the same ids.
C19_WholeCacheReplacement ==
    [][/\ indexed_layer_ids' = DOMAIN layer_indexes'
       /\ \A faults \in BuildFaultChoices :
             IsRebuildWith(faults) =>
                /\ DOMAIN layer_indexes' =
                      {l \in LayerIds : IsEligibleNow(l)'} \ {x.layer : x \in faults}
                /\ \A l \in DOMAIN layer_indexes' : layer_indexes'[l] = BuildIndex(l)']_vars

\* the cache rebuilt under the restriction to the current layer B, with
\* layer A still in the project and visible
C19_Witness ==
    /\ active
    /\ restrict_mode = "active"
    /\ currentLayer = "B"
    /\ DOMAIN layer_indexes = {"B"}
    /\ indexed_layer_ids = {"B"}
    /\ "A" \in project
    /\ "A" \in visible

\* C20 (cache and eligibility agree), as claimed: whenever the tool is
\* active (and no index build has failed) the cache holds an entry for
\* exactly the layers eligible now.
C20_CacheMatchesEligibility ==
    active => DOMAIN layer_indexes = {l \in LayerIds : IsEligibleNow(l)}

(***************************************************************************)
(* Claims about activation (SpecActivation, SpecCache).                    *)
(***************************************************************************)
\* the cache of the next state is what a rebuild in the next state gives
FreshCache ==
    \E faults \in BuildFaultChoices :
       layer_indexes' = RebuildIndexes(restrict_mode, visible, currentLayer, faults)'

\* C21 (activation rebuilds), as claimed: every step in which the tool
\* becomes the canvas's map tool leaves the cache as a rebuild under the
\* restrict mode, visibility, current layer and layer set of that moment
\* leaves it, so the tool is never active with a cache older than its
\* activation.
C21_ActivationRebuilds ==
    [][(~active /\ active') => FreshCache]_vars

\* C21 for the plugin's button alone: every toggle_activation(True) leaves
\* a freshly rebuilt cache.
C21_ToggleRebuilds ==
    [][\A faults \in BuildFaultChoices : ToggleActivationOn(faults) => FreshCache]_vars

\* C22 (the cache follows layer and option changes): while the tool is
\* active, a layers-added or layers-removed notification leaves the cache
\* rebuilt for the layer set of after it, and an options change stores the
\* new restrict and selection modes and leaves the cache rebuilt under them,
\* so that afterwards the cache has no entry for a layer that left the
\* project or that the modes of now do not make eligible.
C22_CacheFollowsChanges ==
    [][active =>
         /\ \A l \in LayerIds, faults \in BuildFaultChoices :
               (LayersRemoved(l, faults) \/ LayersAdded(l, faults)) =>
                  /\ layer_indexes' =
                        RebuildIndexes(restrict_mode, visible, currentLayer, faults)'
                  /\ DOMAIN layer_indexes' \subseteq project'
                  /\ \A k \in DOMAIN layer_indexes' : IsEligibleNow(k)'
         /\ \A r \in RestrictModes, m \in SelectionModes, faults \in BuildFaultChoices :
               OnOptionsChanged(r, m, faults) =>
                  /\ restrict_mode' = r
                  /\ selection_mode' = m
                  /\ layer_indexes' =
                        RebuildIndexes(restrict_mode, visible, currentLayer, faults)'
                  /\ \A k \in DOMAIN layer_indexes' : IsEligibleNow(k)']_vars

\* the tool active under restrict mode all after layer A left the project:
\* the cache holds B alone
C22_Witness ==
    /\ active
    /\ restrict_mode = "all"
    /\ "A" \notin project
    /\ "B" \in project
    /\ DOMAIN layer_indexes = {"B"}

RECURSIVE VerifiedCount(_)
VerifiedCount(S) ==
    IF S = {} THEN 0
    ELSE LET l == CHOOSE x \in S : TRUE
         IN  Cardinality(run.ids[l]) + VerifiedCount(S \ {l})

\* the layers eligible in the last run whose commit did not raise
CommittedLayers ==
    {l \in LayerIds : IsEligibleNow(l) /\ Fault("commit", l, 0) \notin run.hit}

\* C24 (run total), as claimed: the total of a run is the number of verified
\* features summed over the eligible layers of the run.
C24_TotalOverEligible ==
    run # NoRun => run.total = VerifiedCount({l \in LayerIds : IsEligibleNow(l)})

\* C24 (run total), amended: the total of a run is the number of verified
\* features summed over the eligible layers whose selection the run
\* committed; it counts the matches and not the growth of the selection,
\* so in toggle mode the features the run deselects are counted.
C24_TotalOverCommitted ==
    run # NoRun => run.total = VerifiedCount(CommittedLayers)

\* a run in toggle mode whose commit failed for layer B and that deselected
\* its two matches of layer A: the total is two
C24_Witness ==
    /\ run # NoRun
    /\ selection_mode = "toggle"
    /\ Fault("commit", "B", 0) \in run.hit
    /\ run.ids["B"] # {}
    /\ Cardinality(run.ids["A"]) = 2
    /\ run.ids["A"] \subseteq run.pre["A"]
    /\ selected["A"] = run.pre["A"] \ run.ids["A"]
    /\ run.total = 2

(***************************************************************************)
(* Claims about the verified set of a run (SpecFeatures).                  *)
(***************************************************************************)
\* the circle of the last run in the CRS of layer l
RunCircleFor(l) ==
    [c |-> TransformPoint(LayerCrs(l), RunCircle.c), r |-> RunCircle.r]

\* what the bounding-box filter of the last run gave for layer l: from the
\* index if the cache has one for the layer, from the layer otherwise
PreFiltered(l) ==
    LET bb == [xmin |-> RunCircleFor(l).c[1] - RunCircleFor(l).r,
               xmax |-> RunCircleFor(l).c[1] + RunCircleFor(l).r,
               ymin |-> RunCircleFor(l).c[2] - RunCircleFor(l).r,
               ymax |-> RunCircleFor(l).c[2] + RunCircleFor(l).r]
    IN  IF l \in DOMAIN layer_indexes
        THEN {e.fid : e \in {x \in layer_indexes[l] :
                                /\ bb.xmin <= x.pt[1] /\ x.pt[1] <= bb.xmax
                                /\ bb.ymin <= x.pt[2] /\ x.pt[2] <= bb.ymax}}
        ELSE {f \in features[l] :
                 /\ Geom(l, f) # NoGeom
                 /\ bb.xmin <= Geom(l, f)[1] /\ Geom(l, f)[1] <= bb.xmax
                 /\ bb.ymin <= Geom(l, f)[2] /\ Geom(l, f)[2] <= bb.ymax}

\* C25 (exact verification of candidates): every id in a layer's verified
\* set of a run came out of the bounding-box filter for the layer (index or
\* scan), is a feature with a geometry, and that geometry lies within the
\* run's circle taken in the layer's CRS; a run never selects a feature
\* that has no geometry.
C25_ExactVerification ==
    run # NoRun =>
       \A l \in LayerIds :
          /\ \A f \in run.ids[l] :
                /\ f \in PreFiltered(l)
                /\ f \in features[l]
                /\ Geom(l, f) # NoGeom
                /\ (Geom(l, f)[1] - RunCircleFor(l).c[1]) * (Geom(l, f)[1] - RunCircleFor(l).c[1])
                   + (Geom(l, f)[2] - RunCircleFor(l).c[2]) * (Geom(l, f)[2] - RunCircleFor(l).c[2])
                   <= RunCircleFor(l).r * RunCircleFor(l).r
                /\ f \in TrueHits(l)
          /\ \A f \in LayerFids(l) :
                Geom(l, f) = NoGeom => f \notin run.ids[l] /\ f \notin selected[l]

\* a run over layer A, which has a feature without geometry, in which
\* feature 4 came out of the bounding-box filter and failed the exact test
\* while another feature passed it
C25_Witness ==
    /\ run # NoRun
    /\ 4 \in PreFiltered("A") \ run.ids["A"]
    /\ run.ids["A"] # {}
    /\ \E f \in features["A"] : Geom("A", f) = NoGeom

(***************************************************************************)
(* Claims about the hover timer expiring (SpecHoverLive).                  *)
(***************************************************************************)
\* C26 (debounce liveness): once a move has armed the timer for point p,
\* then unless a further move or a deactivation comes first the timer
\* expires and the pipeline runs for p, leaving the tool active with no
\* timer armed; a run happens only at the expiry of an armed timer and
\* disarms it, so there is no second run until another move arms it again.
C26_DebounceLiveness ==
    /\ \A p \in Points, k \in 1..MaxBurst :
          (active /\ timerActive /\ pending_pos = p /\ burst = k)
             ~> \/ run # NoRun /\ run.pos = p /\ active /\ ~timerActive
                \/ ~active
                \/ timerActive /\ (pending_pos # p \/ burst # k)
    /\ [][(run' # NoRun) => (timerActive /\ ~timerActive')]_vars
    /\ [][(~timerActive /\ timerActive') => IsMove]_vars

\* the pipeline has run for the point of a single move and the timer is idle
C26_Witness ==
    /\ run # NoRun
    /\ burst = 1
    /\ run.pos = pending_pos
    /\ active
    /\ ~timerActive

(***************************************************************************)
(* Claims about the age of the hover point (SpecHover).                    *)
(***************************************************************************)
\* C27 (no stale hover point): the point a run uses is the point of the
\* most recent move, and that move came after the most recent activation;
\* the timer is armed only for such a point, so a point left over from
\* before a deactivation is not used by a run after the reactivation.
C27_NoStalePoint ==
    /\ run # NoRun => (run.pos = lastMove /\ burst > 0)
    /\ timerActive => (active /\ pending_pos = lastMove /\ burst > 0)

\* the tool active again, still holding the point whose timer a
\* deactivation stopped, with no move since: no timer, no run
C27_Witness ==
    /\ active
    /\ burst = 0
    /\ cancelled
    /\ pending_pos # None
    /\ ~timerActive
    /\ run = NoRun

(***************************************************************************)
(* Claims about what a run and a deactivation leave alone (SpecHover).     *)
(***************************************************************************)
\* the step is the expiry of the hover timer
IsTimeout == timerActive /\ ~timerActive' /\ active'

\* C28 (add mode is monotone): a pipeline run in add mode removes no
\* feature id from the selection of any layer; each layer's selection
\* after the run contains its selection of before.
C28_AddMonotone ==
    [][(IsTimeout /\ selection_mode = "add") =>
          \A l \in LayerIds : selected[l] \subseteq selected'[l]]_vars

\* a run in add mode over a layer that had a selected feature outside the
\* circle and gained another one: both are selected afterwards
C28_Witness ==
    /\ run # NoRun
    /\ selection_mode = "add"
    /\ \E l \in LayerIds :
          /\ run.pre[l] \ run.ids[l] # {}
          /\ run.ids[l] \ run.pre[l] # {}
          /\ selected[l] = run.pre[l] \cup run.ids[l]

\* C29 (what deactivation and runs leave alone): a deactivation changes
\* neither the index cache nor any configuration field, so the cache is
\* still there at the next activation; a pipeline run changes neither the
\* cache nor the configuration, nor the selection of a layer for which it
\* verified no feature.
C29_FrameOfDeactivateAndRun ==
    [][/\ (active /\ ~active') => UNCHANGED <<cacheVars, radiusVars, modeVars>>
       /\ IsTimeout =>
             /\ UNCHANGED <<cacheVars, radiusVars, modeVars>>
             /\ run' # NoRun =>
                   \A l \in LayerIds : run'.ids[l] = {} => selected'[l] = selected[l]]_vars

\* the tool deactivated with a point pending, after a run that selected
\* features of layer A: the cache built at activation is still there
C29_Witness ==
    /\ ~active
    /\ cancelled
    /\ DOMAIN layer_indexes = {"A", "B"}
    /\ indexed_layer_ids = {"A", "B"}
    /\ selected["A"] # {}

(***************************************************************************)
(* The selection-mode algebra on its own (SpecAlgebra): the mode and the   *)
(* two id sets are drawn at the start, one step applies the mode branch of *)
(* _do_selection to them, to the swapped pair, to (C, {}) and to (C, C).   *)
(***************************************************************************)
AlgIds == 1..MaxAlgId

ApplyAlgebra ==
    /\ ~alg.applied
    /\ alg' = [alg EXCEPT
                 !.applied = TRUE,
                 !.result = ApplySelectionMode(alg.mode, alg.current, alg.found),
                 !.swapped = ApplySelectionMode(alg.mode, alg.found, alg.current),
                 !.withEmpty = ApplySelectionMode(alg.mode, alg.current, {}),
                 !.withSelf = ApplySelectionMode(alg.mode, alg.current, alg.current)]
    /\ UNCHANGED <<active, radiusVars, modeVars, cacheVars, hoverVars, envVars,
                   selected, run, call, features, project>>

InitAlgebra ==
    /\ InitTool({})
    /\ \E m \in SelectionModes, C \in SUBSET AlgIds, F \in SUBSET AlgIds :
          alg = [applied |-> FALSE, mode |-> m, current |-> C, found |-> F,
                 result |-> {}, swapped |-> {}, withEmpty |-> {}, withSelf |-> {}]

NextAlgebra == ApplyAlgebra

SpecAlgebra == InitAlgebra /\ [][NextAlgebra]_vars

\* C5 (laws of the selection-mode algebra): for every mode and all id sets C
\* and F, Add gives a set containing C and F, Replace gives F, and Toggle is
\* symmetric in its two sets, gives C for (C, {}) and {} for (C, C).
C5_AlgebraLaws ==
    alg.applied =>
       /\ alg.mode = "add" =>
             (alg.current \subseteq alg.result /\ alg.found \subseteq alg.result)
       /\ alg.mode = "replace" => alg.result = alg.found
       /\ alg.mode = "toggle" =>
             /\ alg.result = alg.swapped
             /\ alg.withEmpty = alg.current
             /\ alg.withSelf = {}

\* Toggle applied to two different overlapping sets, neither inside the other
C5_Witness ==
    /\ alg.applied
    /\ alg.mode = "toggle"
    /\ alg.current \ alg.found # {}
    /\ alg.found \ alg.current # {}
    /\ alg.current \cap alg.found # {}
    /\ alg.result = (alg.current \cup alg.found) \ (alg.current \cap alg.found)

====
